---- MODULE Spec2Model ----
(***************************************************************************)
(* OpenGPU assembler (sw/assembler/opengpu_asm.py): the two-pass driver,   *)
(* the operand parsers and the word encoders.                              *)
(*                                                                         *)
(* Source lines and operand tokens are TLA+ strings, taken apart character *)
(* by character as the Python string methods do.  A machine word is a      *)
(* Python int of unbounded size; it is kept here as two limbs <<hi, lo>>   *)
(* with value hi * 2^16 + lo and 0 <= lo < 2^16, so that a word that       *)
(* outgrows 32 bits shows as hi >= 2^16.                                    *)
(***************************************************************************)
EXTENDS Integers, Sequences, FiniteSets, TLC

VARIABLES
  labels,           \* self.labels
  current_address,  \* self.current_address
  lines,            \* source.split('\n') of the running assemble call
  pc,               \* where control is
  idx,              \* line_num of the pass that is running
  machine_code,     \* second_pass's local list
  result,           \* what assemble delivered to its caller
  artifact,         \* the output file main writes
  calls,            \* assemble calls made on this instance
  addr1,            \* history: current_address when pass 1 reached each line
  addr2,            \* history: line_num and current_address of each word encoded
  encIn,            \* a direct encoder call: its arguments
  encOut            \* a direct encoder call: the word returned

vars == <<labels, current_address, lines, pc, idx, machine_code, result,
          artifact, calls, addr1, addr2, encIn, encOut>>

(***************************************************************************)
(* Bounds of the model.                                                    *)
(***************************************************************************)
MaxLines == 3
MaxCalls == 2
MaxOps == 4
MaxReuseLines == 2

(***************************************************************************)
(* Characters and the Python string methods the assembler uses.            *)
(***************************************************************************)
Ch(s, k) == SubSeq(s, k, k)

Whitespace == {" ", "\t"}

Digits == {"0", "1", "2", "3", "4", "5", "6", "7", "8", "9"}

DigitVal ==
  [c \in Digits \cup {"a", "b", "c", "d", "e", "f", "A", "B", "C", "D", "E", "F"} |->
     CASE c = "0" -> 0 [] c = "1" -> 1 [] c = "2" -> 2 [] c = "3" -> 3
       [] c = "4" -> 4 [] c = "5" -> 5 [] c = "6" -> 6 [] c = "7" -> 7
       [] c = "8" -> 8 [] c = "9" -> 9
       [] c \in {"a", "A"} -> 10 [] c \in {"b", "B"} -> 11
       [] c \in {"c", "C"} -> 12 [] c \in {"d", "D"} -> 13
       [] c \in {"e", "E"} -> 14 [] c \in {"f", "F"} -> 15]

LowerToUpper ==
  [a |-> "A", b |-> "B", c |-> "C", d |-> "D", e |-> "E", f |-> "F", g |-> "G",
   h |-> "H", i |-> "I", j |-> "J", k |-> "K", l |-> "L", m |-> "M", n |-> "N",
   o |-> "O", p |-> "P", q |-> "Q", r |-> "R", s |-> "S", t |-> "T", u |-> "U",
   v |-> "V", w |-> "W", x |-> "X", y |-> "Y", z |-> "Z"]

UpperLetters == {LowerToUpper[c] : c \in DOMAIN LowerToUpper}

\* \w of the re module, on ASCII text
WordChars == DOMAIN LowerToUpper \cup UpperLetters \cup Digits \cup {"_"}

\* str.upper()
RECURSIVE UpperFrom(_, _)
UpperFrom(s, k) ==
  IF k > Len(s) THEN ""
  ELSE (IF Ch(s, k) \in DOMAIN LowerToUpper THEN LowerToUpper[Ch(s, k)] ELSE Ch(s, k))
         \o UpperFrom(s, k + 1)

Upper(s) == UpperFrom(s, 1)

\* str.find(c) + 1: the position of the first c in s, 0 when there is none
Find(s, c) ==
  IF \E k \in 1..Len(s) : Ch(s, k) = c
  THEN CHOOSE k \in 1..Len(s) : Ch(s, k) = c /\ \A j \in 1..(k - 1) : Ch(s, j) # c
  ELSE 0

\* str.strip()
Strip(s) ==
  IF \A k \in 1..Len(s) : Ch(s, k) \in Whitespace THEN ""
  ELSE LET first == CHOOSE k \in 1..Len(s) :
                      Ch(s, k) \notin Whitespace /\ \A j \in 1..(k - 1) : Ch(s, j) \in Whitespace
           last == CHOOSE k \in 1..Len(s) :
                      Ch(s, k) \notin Whitespace /\ \A j \in (k + 1)..Len(s) : Ch(s, j) \in Whitespace
       IN SubSeq(s, first, last)

\* s.split(c)[0]
BeforeFirst(s, c) == IF Find(s, c) = 0 THEN s ELSE SubSeq(s, 1, Find(s, c) - 1)

\* c.join(s.split(c)[1:])
AfterFirst(s, c) == IF Find(s, c) = 0 THEN "" ELSE SubSeq(s, Find(s, c) + 1, Len(s))

StartsWith(s, p) == Len(s) >= Len(p) /\ SubSeq(s, 1, Len(p)) = p

\* s.replace(',', ' ').split(): the maximal runs of characters that are neither
\* a comma nor whitespace, from position k on
RECURSIVE Tokens(_, _)
Tokens(s, k) ==
  IF k > Len(s) THEN <<>>
  ELSE IF Ch(s, k) \in Whitespace \cup {","} THEN Tokens(s, k + 1)
  ELSE LET stop == IF \E j \in k..Len(s) : Ch(s, j) \in Whitespace \cup {","}
                   THEN (CHOOSE j \in k..Len(s) :
                           /\ Ch(s, j) \in Whitespace \cup {","}
                           /\ \A h \in k..(j - 1) : Ch(s, h) \notin Whitespace \cup {","})
                   ELSE Len(s) + 1
       IN <<SubSeq(s, k, stop - 1)>> \o Tokens(s, stop)

\* the value of the digits s[k..] in the given base, after the value acc
RECURSIVE DigitsValue(_, _, _, _)
DigitsValue(s, k, base, acc) ==
  IF k > Len(s) THEN acc
  ELSE DigitsValue(s, k + 1, base, acc * base + DigitVal[Ch(s, k)])

AllDigits(s, from, base) ==
  /\ from <= Len(s)
  /\ \A k \in from..Len(s) : Ch(s, k) \in DOMAIN DigitVal /\ DigitVal[Ch(s, k)] < base

\* int(s, base) of a "0x.."/"0b.." literal, and int(s) of a signed decimal one
\* (the underscore separators int() also accepts are not modelled)
IntOk(s) ==
  IF StartsWith(s, "0x") \/ StartsWith(s, "0X") THEN AllDigits(s, 3, 16)
  ELSE IF StartsWith(s, "0b") \/ StartsWith(s, "0B") THEN AllDigits(s, 3, 2)
  ELSE IF StartsWith(s, "-") \/ StartsWith(s, "+") THEN AllDigits(s, 2, 10)
  ELSE AllDigits(s, 1, 10)

IntValue(s) ==
  IF StartsWith(s, "0x") \/ StartsWith(s, "0X") THEN DigitsValue(s, 3, 16, 0)
  ELSE IF StartsWith(s, "0b") \/ StartsWith(s, "0B") THEN DigitsValue(s, 3, 2, 0)
  ELSE IF StartsWith(s, "-") THEN 0 - DigitsValue(s, 2, 10, 0)
  ELSE IF StartsWith(s, "+") THEN DigitsValue(s, 2, 10, 0)
  ELSE DigitsValue(s, 1, 10, 0)

(***************************************************************************)
(* The instruction-set tables.                                             *)
(***************************************************************************)
\* a pseudo-instruction's entry is None in the source; -1 stands for it here
OPCODES ==
  [ADD |-> 0, ADDI |-> 1, SUB |-> 2, MUL |-> 3, MULH |-> 4, DIV |-> 5,
   DIVU |-> 6, REM |-> 7, REMU |-> 8,
   AND |-> 16, ANDI |-> 17, OR |-> 18, ORI |-> 19, XOR |-> 20, XORI |-> 21,
   NOT |-> 22,
   SLL |-> 23, SLLI |-> 24, SRL |-> 25, SRLI |-> 26, SRA |-> 27, SRAI |-> 28,
   FADD |-> 32, FSUB |-> 33, FMUL |-> 34, FDIV |-> 35,
   FMADD |-> 36, FMSUB |-> 37, FSQRT |-> 38,
   FABS |-> 39, FNEG |-> 40, FMIN |-> 41, FMAX |-> 42,
   FCVTWS |-> 43, FCVTSW |-> 44,
   FCMPEQ |-> 45, FCMPLT |-> 46, FCMPLE |-> 47,
   SLT |-> 64, SLTI |-> 65, SLTU |-> 66, SLTIU |-> 67, SEQ |-> 68, SNE |-> 69,
   SGE |-> 70, SGEU |-> 71,
   LW |-> 48, LH |-> 49, LHU |-> 50, LB |-> 51, LBU |-> 52, SW |-> 53,
   SH |-> 54, SB |-> 55,
   BEQ |-> 80, BNE |-> 81, BLT |-> 82, BGE |-> 83, BLTU |-> 84, BGEU |-> 85,
   JAL |-> 86, JALR |-> 87,
   RET |-> 88,
   LUI |-> 105, AUIPC |-> 106,
   NOP |-> -1, MV |-> -1, LI |-> -1, J |-> -1]

R_TYPE == {"ADD", "SUB", "MUL", "MULH", "DIV", "DIVU", "REM", "REMU",
           "AND", "OR", "XOR", "NOT", "SLL", "SRL", "SRA",
           "SLT", "SLTU", "SEQ", "SNE", "SGE", "SGEU"}

I_TYPE == {"ADDI", "ANDI", "ORI", "XORI", "SLLI", "SRLI", "SRAI", "SLTI", "SLTIU", "JALR"}

MEM_LOAD == {"LW", "LH", "LHU", "LB", "LBU"}

MEM_STORE == {"SW", "SH", "SB"}

B_TYPE == {"BEQ", "BNE", "BLT", "BGE", "BLTU", "BGEU"}

U_TYPE == {"LUI", "AUIPC", "JAL"}

CTRL_TYPE == {"RET"}

FPU_R2 == {"FADD", "FSUB", "FMUL", "FDIV", "FMIN", "FMAX", "FCMPEQ", "FCMPLT", "FCMPLE"}

FPU_R1 == {"FABS", "FNEG", "FSQRT", "FCVTWS", "FCVTSW"}

FPU_R3 == {"FMADD", "FMSUB"}

DecDigit == <<"0", "1", "2", "3", "4", "5", "6", "7", "8", "9">>

\* f'X{i}'
XName(i) == IF i < 10 THEN "X" \o DecDigit[i + 1]
            ELSE "X" \o DecDigit[(i \div 10) + 1] \o DecDigit[(i % 10) + 1]

REGISTERS ==
  [n \in {XName(i) : i \in 0..31} |-> CHOOSE i \in 0..31 : XName(i) = n]
  @@ [ZERO |-> 0,
      THREADIDX |-> 1, TID |-> 1,
      BLOCKIDX |-> 2, BID |-> 2,
      BLOCKDIM |-> 3, BDIM |-> 3,
      GRIDDIM |-> 4, GDIM |-> 4,
      WARPIDX |-> 5, WID |-> 5,
      LANEIDX |-> 6, LID |-> 6,
      T0 |-> 7, T1 |-> 8, T2 |-> 9, T3 |-> 10, T4 |-> 11,
      T5 |-> 12, T6 |-> 13, T7 |-> 14, T8 |-> 15]

(***************************************************************************)
(* Outcomes: a returned value, or the exception raised (its class and the  *)
(* head of its message).                                                   *)
(***************************************************************************)
NoError == [exc |-> "", msg |-> ""]

IndexError == [exc |-> "IndexError", msg |-> "list index out of range"]

ValueError(m) == [exc |-> "ValueError", msg |-> m]

\* the label table of a call that passes none (labels = None)
NoLabels == [l \in {} |-> 0]

(***************************************************************************)
(* Operand parsers.  Each yields [err, val]: err is NoError when the       *)
(* parser returns val, and the exception raised otherwise.                 *)
(***************************************************************************)
parse_register(reg_str) ==
  LET r == Strip(Upper(reg_str))
  IN IF r \in DOMAIN REGISTERS
     THEN [err |-> NoError, val |-> REGISTERS[r]]
     ELSE [err |-> ValueError("Unknown register"), val |-> 0]

\* mutant: a label always resolves to its absolute address
parse_immediate_absolute(imm_str, labs, current_addr, relative) ==
  LET s == Strip(imm_str)
  IN IF DOMAIN labs # {} /\ s \in DOMAIN labs
     THEN [err |-> NoError, val |-> labs[s]]
     ELSE IF IntOk(s)
     THEN [err |-> NoError, val |-> IntValue(s)]
     ELSE [err |-> ValueError("Cannot parse immediate"), val |-> 0]

parse_immediate(imm_str, labs, current_addr, relative) ==
  LET s == Strip(imm_str)
  IN IF DOMAIN labs # {} /\ s \in DOMAIN labs
     THEN [err |-> NoError,
           val |-> IF relative THEN labs[s] - current_addr ELSE labs[s]]
     ELSE IF IntOk(s)
     THEN [err |-> NoError, val |-> IntValue(s)]
     ELSE [err |-> ValueError("Cannot parse immediate"), val |-> 0]

\* re.match(r'(-?\d+)?\((\w+)\)', operand.strip()): the end of the optional
\* signed-integer group, then '(', a maximal run of word characters, ')'
MemOffsetEnd(s) ==
  LET from == IF StartsWith(s, "-") THEN 2 ELSE 1
      run == {k \in from..Len(s) : \A j \in from..k : Ch(s, j) \in Digits}
  IN IF run = {} THEN 0 ELSE CHOOSE k \in run : \A j \in run : j <= k

MemRegEnd(s, open) ==
  LET run == {k \in (open + 1)..Len(s) : \A j \in (open + 1)..k : Ch(s, j) \in WordChars}
  IN IF run = {} THEN open ELSE CHOOSE k \in run : \A j \in run : j <= k

parse_memory_operand(operand) ==
  LET s == Strip(operand)
      open == MemOffsetEnd(s) + 1
      close == MemRegEnd(s, open) + 1
      matched == /\ open <= Len(s) /\ Ch(s, open) = "("
                 /\ close > open + 1
                 /\ close <= Len(s) /\ Ch(s, close) = ")"
      offset == IF open = 1 THEN 0 ELSE IntValue(SubSeq(s, 1, open - 1))
      reg == parse_register(SubSeq(s, open + 1, close - 1))
  IN IF ~matched
     THEN [err |-> ValueError("Invalid memory operand"), offset |-> 0, reg |-> 0]
     ELSE IF reg.err # NoError
     THEN [err |-> reg.err, offset |-> 0, reg |-> 0]
     ELSE [err |-> NoError, offset |-> offset, reg |-> reg.val]

(***************************************************************************)
(* Word encoders, on limbs.                                                *)
(***************************************************************************)
RECURSIVE BitOr(_, _)
BitOr(a, b) ==
  IF a = 0 THEN b
  ELSE IF b = 0 THEN a
  ELSE (IF a % 2 = 1 \/ b % 2 = 1 THEN 1 ELSE 0) + 2 * BitOr(a \div 2, b \div 2)

\* v << n, for v >= 0
Shl(v, n) ==
  IF n >= 16 THEN <<v * 2^(n - 16), 0>>
  ELSE <<(v * 2^n) \div 65536, (v * 2^n) % 65536>>

\* a | b
WordOr(a, b) == <<BitOr(a[1], b[1]), BitOr(a[2], b[2])>>

\* imm & 0xFFFF
And16(imm) == <<0, imm % 65536>>

\* imm & 0x1FFFFF
And21(imm) == <<(imm % 2097152) \div 65536, imm % 65536>>

encode_r_type(opcode, rd, rs1, rs2) ==
  WordOr(WordOr(WordOr(Shl(opcode, 26), Shl(rd, 21)), Shl(rs1, 16)), Shl(rs2, 11))

\* mutant: rd and rs1 in each other's place
encode_i_type_swapped(opcode, rd, rs1, imm) ==
  WordOr(WordOr(WordOr(Shl(opcode, 26), Shl(rs1, 21)), Shl(rd, 16)), And16(imm))

encode_i_type(opcode, rd, rs1, imm) ==
  WordOr(WordOr(WordOr(Shl(opcode, 26), Shl(rd, 21)), Shl(rs1, 16)), And16(imm))

encode_s_type(opcode, rs2, rs1, offset) ==
  WordOr(WordOr(WordOr(Shl(opcode, 26), Shl(rs2, 21)), Shl(rs1, 16)), And16(offset))

encode_b_type(opcode, rs1, rs2, offset) ==
  WordOr(WordOr(WordOr(Shl(opcode, 26), Shl(rs2, 21)), Shl(rs1, 16)), And16(offset))

encode_u_type(opcode, rd, imm) ==
  WordOr(WordOr(Shl(opcode, 26), Shl(rd, 21)), And21(imm))

\* the FMADD/FMSUB packing, rs3 in bits [10:6]
encode_r3_type(opcode, rd, rs1, rs2, rs3) ==
  WordOr(WordOr(WordOr(WordOr(Shl(opcode, 26), Shl(rd, 21)), Shl(rs1, 16)),
                Shl(rs2, 11)), Shl(rs3, 6))

(***************************************************************************)
(* assemble_instruction.  Python evaluates the operands left to right, so  *)
(* the exception raised is that of the first operand that is missing       *)
(* (operands[k] beyond the list: IndexError) or that its parser rejects.   *)
(* kinds names the parser applied to each position: "reg" parse_register,  *)
(* "imm" parse_immediate without labels, "abs" with labels, "rel" with     *)
(* labels and relative=True, "mem" parse_memory_operand.                   *)
(***************************************************************************)
OperandError(operands, kind, k, labs, addr) ==
  IF k > Len(operands) THEN IndexError
  ELSE CASE kind = "reg" -> parse_register(operands[k]).err
         [] kind = "imm" -> parse_immediate(operands[k], NoLabels, 0, FALSE).err
         [] kind = "abs" -> parse_immediate(operands[k], labs, 0, FALSE).err
         [] kind = "rel" -> parse_immediate(operands[k], labs, addr, TRUE).err
         [] kind = "mem" -> parse_memory_operand(operands[k]).err

FirstError(operands, kinds, labs, addr) ==
  LET bad == {k \in 1..Len(kinds) : OperandError(operands, kinds[k], k, labs, addr) # NoError}
  IN IF bad = {} THEN NoError
     ELSE OperandError(operands, kinds[CHOOSE k \in bad : \A j \in bad : k <= j],
                       CHOOSE k \in bad : \A j \in bad : k <= j, labs, addr)

Reg(operands, k) == parse_register(operands[k]).val

Raise(e) == [ok |-> FALSE, word |-> <<0, 0>>, err |-> e]

Return(w) == [ok |-> TRUE, word |-> w, err |-> NoError]

\* the operand parsers a mnemonic applies, in order
OperandKinds(mnemonic) ==
  CASE mnemonic = "NOP" -> <<>>
    [] mnemonic = "MV" -> <<"reg", "reg">>
    [] mnemonic = "LI" -> <<"reg", "imm">>
    [] mnemonic = "J" -> <<"rel">>
    [] mnemonic = "NOT" -> <<"reg", "reg">>
    [] mnemonic \in R_TYPE \ {"NOT"} -> <<"reg", "reg", "reg">>
    [] mnemonic \in I_TYPE -> <<"reg", "reg", "abs">>
    [] mnemonic \in MEM_LOAD \cup MEM_STORE -> <<"reg", "mem">>
    [] mnemonic \in B_TYPE -> <<"reg", "reg", "rel">>
    [] mnemonic = "JAL" -> <<"reg", "rel">>
    [] mnemonic \in U_TYPE \ {"JAL"} -> <<"reg", "abs">>
    [] mnemonic \in CTRL_TYPE -> <<>>
    [] mnemonic \in FPU_R2 -> <<"reg", "reg", "reg">>
    [] mnemonic \in FPU_R1 -> <<"reg", "reg">>
    [] mnemonic \in FPU_R3 -> <<"reg", "reg", "reg", "reg">>
    [] OTHER -> <<>>

\* mutant: the range of an unsigned 16-bit immediate
LIInRange_unsigned(imm) == 0 <= imm /\ imm <= 65535

\* LI's range test
LIInRange(imm) == -32768 <= imm /\ imm <= 32767

\* the word a mnemonic packs once every operand has parsed
Encode(mnemonic, operands, labs, addr) ==
  LET opcode == OPCODES[mnemonic]
  IN CASE mnemonic = "NOP" -> Return(encode_i_type(OPCODES["ADDI"], 0, 0, 0))
       [] mnemonic = "MV" ->
            Return(encode_i_type(OPCODES["ADDI"], Reg(operands, 1), Reg(operands, 2), 0))
       [] mnemonic = "LI" ->
            LET imm == parse_immediate(operands[2], NoLabels, 0, FALSE).val
            IN IF LIInRange(imm)
               THEN Return(encode_i_type(OPCODES["ADDI"], Reg(operands, 1), 0, imm))
               ELSE Raise(ValueError("LI immediate too large"))
       [] mnemonic = "J" ->
            Return(encode_u_type(OPCODES["JAL"], 0,
                                 parse_immediate(operands[1], labs, addr, TRUE).val))
       [] mnemonic = "NOT" ->
            Return(encode_r_type(opcode, Reg(operands, 1), Reg(operands, 2), 0))
       [] mnemonic \in R_TYPE \ {"NOT"} ->
            Return(encode_r_type(opcode, Reg(operands, 1), Reg(operands, 2), Reg(operands, 3)))
       [] mnemonic \in I_TYPE ->
            Return(encode_i_type(opcode, Reg(operands, 1), Reg(operands, 2),
                                 parse_immediate(operands[3], labs, 0, FALSE).val))
       [] mnemonic \in MEM_LOAD ->
            Return(encode_i_type(opcode, Reg(operands, 1),
                                 parse_memory_operand(operands[2]).reg,
                                 parse_memory_operand(operands[2]).offset))
       [] mnemonic \in MEM_STORE ->
            Return(encode_s_type(opcode, Reg(operands, 1),
                                 parse_memory_operand(operands[2]).reg,
                                 parse_memory_operand(operands[2]).offset))
       [] mnemonic \in B_TYPE ->
            Return(encode_b_type(opcode, Reg(operands, 1), Reg(operands, 2),
                                 parse_immediate(operands[3], labs, addr, TRUE).val))
       [] mnemonic = "JAL" ->
            Return(encode_u_type(opcode, Reg(operands, 1),
                                 parse_immediate(operands[2], labs, addr, TRUE).val))
       [] mnemonic \in U_TYPE \ {"JAL"} ->
            Return(encode_u_type(opcode, Reg(operands, 1),
                                 parse_immediate(operands[2], labs, 0, FALSE).val))
       [] mnemonic \in CTRL_TYPE -> Return(Shl(opcode, 26))
       [] mnemonic \in FPU_R2 ->
            Return(encode_r_type(opcode, Reg(operands, 1), Reg(operands, 2), Reg(operands, 3)))
       [] mnemonic \in FPU_R1 ->
            Return(encode_r_type(opcode, Reg(operands, 1), Reg(operands, 2), 0))
       [] mnemonic \in FPU_R3 ->
            Return(encode_r3_type(opcode, Reg(operands, 1), Reg(operands, 2),
                                  Reg(operands, 3), Reg(operands, 4)))
       [] OTHER -> Raise(ValueError("Unhandled instruction"))

\* line is the stripped text of an instruction line, labs the label table
\* (self.labels) and addr the address counter (self.current_address)
assemble_instruction(line, labs, addr) ==
  LET parts == Tokens(line, 1)
  IN IF parts = <<>> THEN Raise(IndexError)
     ELSE LET mnemonic == Upper(parts[1])
              operands == Tail(parts)
          IN IF mnemonic \notin DOMAIN OPCODES
             THEN Raise(ValueError("Unknown instruction"))
             ELSE LET e == FirstError(operands, OperandKinds(mnemonic), labs, addr)
                  IN IF e # NoError THEN Raise(e)
                     ELSE Encode(mnemonic, operands, labs, addr)

(***************************************************************************)
(* Output formatter.                                                       *)
(***************************************************************************)
HexDigit == <<"0", "1", "2", "3", "4", "5", "6", "7", "8", "9",
              "a", "b", "c", "d", "e", "f">>

\* the hexadecimal digits of n >= 0, zero-padded to at least width digits
RECURSIVE HexPad(_, _)
HexPad(n, width) ==
  IF n < 16 /\ width <= 1 THEN HexDigit[n + 1]
  ELSE HexPad(n \div 16, width - 1) \o HexDigit[(n % 16) + 1]

\* f'{code:08x}'
Hex08(w) == HexPad(w[1], 4) \o HexPad(w[2], 4)

\* to_hex, a line per word (the text is these lines joined by newlines)
to_hex(code) == [k \in 1..Len(code) |-> Hex08(code[k])]

\* to_memh, a line per entry; k * 4 stays below 2^16 in this model
to_memh(code) ==
  <<"// OpenGPU machine code", "">>
    \o [k \in 1..Len(code) |->
          Hex08(code[k]) \o "  // addr " \o HexPad((k - 1) * 4, 4)]

(***************************************************************************)
(* The two passes.  Each pass has its own copy of the line scan in the     *)
(* source, and so here.                                                    *)
(***************************************************************************)
\* line.split('#')[0].strip()
StripComment(raw) == Strip(BeforeFirst(raw, "#"))

\* first_pass: the label a line defines, and what is left of the line
FirstPassHasLabel(raw) == StripComment(raw) # "" /\ Find(StripComment(raw), ":") # 0

FirstPassLabel(raw) == Strip(BeforeFirst(StripComment(raw), ":"))

FirstPassRest(raw) ==
  IF Find(StripComment(raw), ":") # 0
  THEN Strip(AfterFirst(StripComment(raw), ":"))
  ELSE StripComment(raw)

\* mutant: a directive advances the address too
FirstPassCounts_directives(raw) == FirstPassRest(raw) # ""

\* first_pass reaches "self.current_address += 4" on this line
FirstPassCounts(raw) == FirstPassRest(raw) # "" /\ ~StartsWith(FirstPassRest(raw), ".")

\* second_pass: what is left of the line
SecondPassRest(raw) ==
  IF Find(StripComment(raw), ":") # 0
  THEN Strip(AfterFirst(StripComment(raw), ":"))
  ELSE StripComment(raw)

\* mutant: a line that carries a label is skipped whole
SecondPassEncodes_unlabelled(raw) ==
  /\ Find(StripComment(raw), ":") = 0
  /\ SecondPassRest(raw) # "" /\ ~StartsWith(SecondPassRest(raw), ".")

\* second_pass reaches assemble_instruction on this line
SecondPassEncodes(raw) == SecondPassRest(raw) # "" /\ ~StartsWith(SecondPassRest(raw), ".")

\* self.labels[name] = addr
SetLabel(labs, name, addr) ==
  [l \in DOMAIN labs \cup {name} |-> IF l = name THEN addr ELSE labs[l]]

NoResult == [kind |-> "none", words |-> <<>>, line_num |-> 0, err |-> NoError]

NoArtifact == [written |-> FALSE, text |-> <<>>]

NoEnc == [fn |-> "none", opcode |-> 0, a |-> 0, b |-> 0, c |-> 0, d |-> 0]

\* mutant: the words encoded before the failure are handed over
Raised_partial(code, line_num, e) ==
  [kind |-> "error", words |-> code, line_num |-> line_num, err |-> e]

\* what second_pass hands to its caller when line line_num raises e: the
\* exception alone, the words encoded so far being dropped with the frame
Raised(code, line_num, e) ==
  [kind |-> "error", words |-> <<>>, line_num |-> line_num, err |-> e]

Returned(code) == [kind |-> "words", words |-> code, line_num |-> 0, err |-> NoError]

\* Assembler(): the state after construction
Init ==
  /\ labels = NoLabels
  /\ current_address = 0
  /\ lines = <<>>
  /\ pc = "idle"
  /\ idx = 0
  /\ machine_code = <<>>
  /\ result = NoResult
  /\ artifact = NoArtifact
  /\ calls = 0
  /\ addr1 = <<>>
  /\ addr2 = <<>>
  /\ encIn = NoEnc
  /\ encOut = <<0, 0>>

\* assemble(source), up to the first line of first_pass
BeginAssemble(src) ==
  /\ lines' = src
  /\ current_address' = 0
  /\ idx' = 1
  /\ pc' = "first_pass"
  /\ machine_code' = <<>>
  /\ result' = NoResult
  /\ calls' = calls + 1
  /\ addr1' = <<>>
  /\ addr2' = <<>>
  /\ UNCHANGED <<labels, artifact, encIn, encOut>>

\* one iteration of first_pass's loop
FirstPassLine ==
  /\ pc = "first_pass"
  /\ idx <= Len(lines)
  /\ labels' = IF FirstPassHasLabel(lines[idx])
               THEN SetLabel(labels, FirstPassLabel(lines[idx]), current_address)
               ELSE labels
  /\ current_address' = IF FirstPassCounts(lines[idx])
                        THEN current_address + 4
                        ELSE current_address
  /\ addr1' = Append(addr1, current_address)
  /\ idx' = idx + 1
  /\ UNCHANGED <<lines, pc, machine_code, result, artifact, calls, addr2, encIn, encOut>>

\* first_pass returns, second_pass starts
SecondPassBegin ==
  /\ pc = "first_pass"
  /\ idx > Len(lines)
  /\ machine_code' = <<>>
  /\ current_address' = 0
  /\ idx' = 1
  /\ pc' = "second_pass"
  /\ UNCHANGED <<labels, lines, result, artifact, calls, addr1, addr2, encIn, encOut>>

\* one iteration of second_pass's loop
SecondPassLine ==
  /\ pc = "second_pass"
  /\ idx <= Len(lines)
  /\ IF ~SecondPassEncodes(lines[idx])
     THEN /\ idx' = idx + 1
          /\ UNCHANGED <<current_address, machine_code, result, pc, addr2>>
     ELSE LET r == assemble_instruction(SecondPassRest(lines[idx]), labels, current_address)
          IN IF r.ok
             THEN /\ machine_code' = Append(machine_code, r.word)
                  /\ addr2' = Append(addr2, [line |-> idx, addr |-> current_address])
                  /\ current_address' = current_address + 4
                  /\ idx' = idx + 1
                  /\ UNCHANGED <<result, pc>>
             ELSE /\ result' = Raised(machine_code, idx, r.err)
                  /\ pc' = "raised"
                  /\ UNCHANGED <<current_address, machine_code, idx, addr2>>
  /\ UNCHANGED <<labels, lines, artifact, calls, addr1, encIn, encOut>>

\* second_pass returns machine_code, and assemble returns it
SecondPassReturn ==
  /\ pc = "second_pass"
  /\ idx > Len(lines)
  /\ result' = Returned(machine_code)
  /\ pc' = "returned"
  /\ UNCHANGED <<labels, current_address, lines, idx, machine_code, artifact, calls,
                 addr1, addr2, encIn, encOut>>

\* main, after assemble returned: the output file is written
WriteOutput ==
  /\ pc = "returned"
  /\ artifact' = [written |-> TRUE, text |-> to_memh(result.words)]
  /\ pc' = "exit0"
  /\ UNCHANGED <<labels, current_address, lines, idx, machine_code, result, calls,
                 addr1, addr2, encIn, encOut>>

\* main, after assemble raised: "Assembly failed", sys.exit(1)
ExitFailure ==
  /\ pc = "raised"
  /\ pc' = "exit1"
  /\ UNCHANGED <<labels, current_address, lines, idx, machine_code, result, artifact,
                 calls, addr1, addr2, encIn, encOut>>

(***************************************************************************)
(* Inputs.                                                                 *)
(***************************************************************************)
SeqsUpTo(S, lo, hi) == UNION {[1..n -> S] : n \in lo..hi}

\* program lines: blank, blank after its comment, label-only, label and
\* instruction, label and directive, directive, branches and jumps to the
\* labels a and b (defined before, after, twice or not at all), and an
\* instruction short of an operand
ProgramLines ==
  {"", "  # note", "a:", "b: NOP # pad", "a: .word 7", ".text",
   "BNE X1, x2, a", "J b", "jal X1, a", "MV X1"}

Programs == SeqsUpTo(ProgramLines, 1, MaxLines)

\* single instructions: every mnemonic of the table, and one that is not
\* in it, with every operand list of up to MaxOps of these tokens
OperandTokens == {"x1", "-1", "8(X2)"}

Mnemonics == DOMAIN OPCODES \cup {"FOO"}

RECURSIVE JoinOperands(_, _)
JoinOperands(ops, k) ==
  IF k > Len(ops) THEN ""
  ELSE (IF k = 1 THEN " " ELSE ", ") \o ops[k] \o JoinOperands(ops, k + 1)

GeneratedLines ==
  {m \o JoinOperands(ops, 1) : m \in Mnemonics, ops \in SeqsUpTo(OperandTokens, 0, MaxOps)}

\* the decimal text of an integer
RECURSIVE DecNat(_)
DecNat(n) == IF n < 10 THEN DecDigit[n + 1] ELSE DecNat(n \div 10) \o DecDigit[(n % 10) + 1]

Dec(v) == IF v < 0 THEN "-" \o DecNat(0 - v) ELSE DecNat(v)

LIValues == {-40000, -32769, -32768, -1, 0, 1, 255, 32767, 32768, 40000, 65535, 65536}

LILines == {"LI X3, " \o Dec(v) : v \in LIValues}

ScenarioLines ==
  {"ADD X1, X2, X3", "ADDI X5, X0, -1", "LW X1, 8(X2)", "LI X1, 40000",
   "ADD X1, X2, Y9", "lw tid, -4(t8)", "SW X7, (X31)", "LH X1, 8(X2)x",
   "LW X1, 8 (X2)", "LW X1, -(X2)", "LI X1, 0x7fff", "LI X1, 0X8000",
   "LI X1, 0b101", "LI X1, +5", "LI X1, 0x", "LI X1, 1 2", "ADDI X1, X2, 0xFFFF",
   "LUI X1, 0x1FFFFF", "LUI X1, 0x200001", "J -4", "BEQ X1, X2, 65540", ",",
   "loop: BNE X1, X0, loop", "x: LW X1, 65544(X2)"}

\* loads "Lx rd, off(rs1)" written from their fields
LoadRegs == {0, 1, 2, 31}

LoadOffsets == {-32769, -4, 0, 8, 32768, 65544}

LoadLine(m, rd, rs1, off) ==
  m \o " " \o XName(rd) \o ", " \o Dec(off) \o "(" \o XName(rs1) \o ")"

LoadLines ==
  {LoadLine(m, rd, rs1, off) : m \in MEM_LOAD, rd \in {1, 31}, rs1 \in LoadRegs,
                               off \in LoadOffsets}

InstructionLines == GeneratedLines \cup LILines \cup LoadLines \cup ScenarioLines

(***************************************************************************)
(* The program as main runs it: one Assembler, one assemble call over a    *)
(* whole program, then the output file or the failure exit.                *)
(***************************************************************************)
AssembleProgram ==
  /\ pc = "idle"
  /\ \E src \in Programs : BeginAssemble(src)

Next ==
  \/ AssembleProgram
  \/ FirstPassLine
  \/ SecondPassBegin
  \/ SecondPassLine
  \/ SecondPassReturn
  \/ WriteOutput
  \/ ExitFailure

Spec == Init /\ [][Next]_vars

(***************************************************************************)
(* The same run over a source of one instruction line.                     *)
(***************************************************************************)
AssembleLine ==
  /\ pc = "idle"
  /\ \E line \in InstructionLines : BeginAssemble(<<line>>)

NextInstr ==
  \/ AssembleLine
  \/ FirstPassLine
  \/ SecondPassBegin
  \/ SecondPassLine
  \/ SecondPassReturn
  \/ WriteOutput
  \/ ExitFailure

SpecInstr == Init /\ [][NextInstr]_vars

(***************************************************************************)
(* An Assembler instance used as a library object: assemble is called      *)
(* again on the same instance after a call returned or raised.             *)
(***************************************************************************)
ShortPrograms == SeqsUpTo(ProgramLines, 1, MaxReuseLines)

AssembleFirst ==
  /\ pc = "idle"
  /\ \E src \in ShortPrograms : BeginAssemble(src)

AssembleAgain ==
  /\ pc \in {"returned", "raised"}
  /\ calls < MaxCalls
  /\ \E src \in ShortPrograms : BeginAssemble(src)

NextReuse ==
  \/ AssembleFirst
  \/ AssembleAgain
  \/ FirstPassLine
  \/ SecondPassBegin
  \/ SecondPassLine
  \/ SecondPassReturn

SpecReuse == Init /\ [][NextReuse]_vars

(***************************************************************************)
(* The encoders called directly, as methods of an Assembler, on integers   *)
(* inside and outside the field widths.  Opcodes and registers are kept    *)
(* non-negative (the limbs hold no negative word); immediates are signed.  *)
(***************************************************************************)
EncOpcodes == {0, 1, 48, 63, 64, 106}

EncRegs == {0, 1, 31, 32, 33}

EncImms == {-65537, -32769, -1, 0, 8, 65535, 65536, 2097151, 2097152}

EncCalls ==
  {[fn |-> "encode_r_type", opcode |-> o, a |-> x, b |-> y, c |-> z, d |-> 0] :
      o \in EncOpcodes, x \in EncRegs, y \in EncRegs, z \in EncRegs}
  \cup
  {[fn |-> f, opcode |-> o, a |-> x, b |-> y, c |-> z, d |-> 0] :
      f \in {"encode_i_type", "encode_s_type", "encode_b_type"},
      o \in EncOpcodes, x \in {1, 32}, y \in {2, 33}, z \in EncImms}
  \cup
  {[fn |-> "encode_u_type", opcode |-> o, a |-> x, b |-> z, c |-> 0, d |-> 0] :
      o \in EncOpcodes, x \in EncRegs, z \in EncImms}
  \cup
  {[fn |-> "encode_r3_type", opcode |-> o, a |-> x, b |-> y, c |-> z, d |-> u] :
      o \in {36, 37, 64}, x \in {1, 32}, y \in {2, 32}, z \in {3, 32}, u \in EncRegs}

ApplyEncoder(in) ==
  CASE in.fn = "encode_r_type" -> encode_r_type(in.opcode, in.a, in.b, in.c)
    [] in.fn = "encode_i_type" -> encode_i_type(in.opcode, in.a, in.b, in.c)
    [] in.fn = "encode_s_type" -> encode_s_type(in.opcode, in.a, in.b, in.c)
    [] in.fn = "encode_b_type" -> encode_b_type(in.opcode, in.a, in.b, in.c)
    [] in.fn = "encode_u_type" -> encode_u_type(in.opcode, in.a, in.b)
    [] in.fn = "encode_r3_type" -> encode_r3_type(in.opcode, in.a, in.b, in.c, in.d)

CallEncoder ==
  /\ pc = "idle"
  /\ \E in \in EncCalls :
       /\ encIn' = in
       /\ encOut' = ApplyEncoder(in)
  /\ pc' = "encoded"
  /\ UNCHANGED <<labels, current_address, lines, idx, machine_code, result, artifact,
                 calls, addr1, addr2>>

NextEnc == CallEncoder

SpecEnc == Init /\ [][NextEnc]_vars

(***************************************************************************)
(* assemble on a newly constructed Assembler, as a function of the source: *)
(* the loops of first_pass and second_pass run to their end.               *)
(***************************************************************************)
RECURSIVE first_pass(_, _, _, _)
first_pass(src, k, labs, addr) ==
  IF k > Len(src) THEN labs
  ELSE first_pass(src, k + 1,
                  IF FirstPassHasLabel(src[k])
                  THEN SetLabel(labs, FirstPassLabel(src[k]), addr)
                  ELSE labs,
                  IF FirstPassCounts(src[k]) THEN addr + 4 ELSE addr)

RECURSIVE second_pass(_, _, _, _, _)
second_pass(src, k, labs, addr, code) ==
  IF k > Len(src) THEN Returned(code)
  ELSE IF ~SecondPassEncodes(src[k]) THEN second_pass(src, k + 1, labs, addr, code)
  ELSE LET r == assemble_instruction(SecondPassRest(src[k]), labs, addr)
       IN IF r.ok THEN second_pass(src, k + 1, labs, addr + 4, Append(code, r.word))
          ELSE Raised(code, k, r.err)

assemble(src) == second_pass(src, 1, first_pass(src, 1, NoLabels, 0), 0, <<>>)

(***************************************************************************)
(* Properties.                                                             *)
(***************************************************************************)
\* a line that, after stripping the '#' comment and the 'label:' prefix, is
\* non-empty and does not start with '.'
InstructionLine(raw) ==
  LET text == Strip(BeforeFirst(raw, "#"))
      body == IF Find(text, ":") = 0 THEN text ELSE Strip(AfterFirst(text, ":"))
  IN body # "" /\ ~StartsWith(body, ".")

\* the instruction lines among the first n lines, and the line of the k-th
InstructionLinesBefore(src, n) == {i \in 1..n : i <= Len(src) /\ InstructionLine(src[i])}

NthInstructionLine(src, k) ==
  CHOOSE i \in 1..Len(src) :
    InstructionLine(src[i]) /\ Cardinality(InstructionLinesBefore(src, i)) = k

Finished == {"returned", "exit0"}

Failed == {"raised", "exit1"}

\* C1: while a pass runs, the address counter is 4 times the number of
\* instruction lines passed, and pass 2 holds one word for each of them;
\* when assemble succeeds the words are those of the instruction lines, one
\* each, in source-line order.
C1_OneWordPerInstructionLine ==
  /\ pc = "first_pass" =>
       current_address = 4 * Cardinality(InstructionLinesBefore(lines, idx - 1))
  /\ pc = "second_pass" =>
       /\ Len(machine_code) = Cardinality(InstructionLinesBefore(lines, idx - 1))
       /\ current_address = 4 * Len(machine_code)
  /\ pc \in Finished =>
       /\ Len(result.words) = Cardinality(InstructionLinesBefore(lines, Len(lines)))
       /\ \A k \in 1..Len(result.words) :
            LET i == NthInstructionLine(lines, k)
            IN /\ addr2[k] = [line |-> i, addr |-> 4 * (k - 1)]
               /\ result.words[k] =
                    assemble_instruction(SecondPassRest(lines[i]), labels, 4 * (k - 1)).word

\* C1 witness: a successful assembly of three lines, of which a label-only
\* line and a directive give no word and the third gives the only word.
C1_Witness ==
  /\ pc = "returned"
  /\ lines = <<"a:", ".text", "b: NOP # pad">>
  /\ result.words = <<<<1024, 0>>>>

\* the lines that define label l, by the 'name:' prefix
DefiningLines(src, n, l) ==
  {i \in 1..n : LET text == Strip(BeforeFirst(src[i], "#"))
                IN Find(text, ":") # 0 /\ Strip(BeforeFirst(text, ":")) = l}

LastOf(S) == CHOOSE i \in S : \A j \in S : j <= i

\* C2: during and after first_pass every label of the table has a defining
\* line among the lines scanned, and maps to 4 * k, k the number of
\* instruction lines before its (last) defining line.
C2_LabelAddress ==
  pc # "idle" =>
    LET n == IF pc = "first_pass" THEN idx - 1 ELSE Len(lines)
    IN \A l \in DOMAIN labels :
         /\ DefiningLines(lines, n, l) # {}
         /\ labels[l] =
              4 * Cardinality(InstructionLinesBefore(lines, LastOf(DefiningLines(lines, n, l)) - 1))

\* C2 witness: first_pass is over; b shares its line with the first
\* instruction (address 0), a shares its line with a directive after it and
\* names the address of the instruction that follows (4).
C2_Witness ==
  /\ pc = "second_pass"
  /\ lines = <<"b: NOP # pad", "a: .word 7", "J b">>
  /\ labels = ("a" :> 4 @@ "b" :> 0)

\* the offset field of a word: 16 bits of a branch, 21 bits of JAL and J
Offset16(w) == w[2]

Offset21(w) == (w[1] % 32) * 65536 + w[2]

\* C3: each word was encoded at the address pass 1 held at its line, which
\* is 4 times the index of the word; a branch, JAL or J whose target is a
\* label of the table carries (label address - that address), reduced to
\* the width of its offset field.
C3_PassConsistency ==
  \A k \in 1..Len(machine_code) :
    LET i == addr2[k].line
        a == addr2[k].addr
        parts == Tokens(SecondPassRest(lines[i]), 1)
        m == Upper(parts[1])
    IN /\ a = addr1[i]
       /\ a = 4 * (k - 1)
       /\ (m \in B_TYPE /\ Len(parts) >= 4 /\ parts[4] \in DOMAIN labels) =>
            Offset16(machine_code[k]) = (labels[parts[4]] - a) % 65536
       /\ (m = "JAL" /\ Len(parts) >= 3 /\ parts[3] \in DOMAIN labels) =>
            Offset21(machine_code[k]) = (labels[parts[3]] - a) % 2097152
       /\ (m = "J" /\ Len(parts) >= 2 /\ parts[2] \in DOMAIN labels) =>
            Offset21(machine_code[k]) = (labels[parts[2]] - a) % 2097152

\* C3 witness: a forward jump (offset +4), then backward references from
\* address 8: J to b (offset -4) is the third word.
C3_Witness ==
  /\ pc = "returned"
  /\ lines = <<"J b", "b: NOP # pad", "J b">>
  /\ Offset21(machine_code[1]) = 4
  /\ Offset21(machine_code[3]) = 2097148

\* C3 second case, a 16-bit branch offset backwards, is reached too
C3_BranchReached ==
  /\ pc = "returned"
  /\ lines = <<"a:", "b: NOP # pad", "BNE X1, x2, a">>
  /\ Offset16(machine_code[2]) = 65532

\* C4: when an instruction line fails, it is the first failing line in
\* source order, no later line has been encoded, the caller gets no word,
\* no output file is written, and the label table holds the labels of the
\* whole file; an output file exists only after a successful assemble.
C4_AbortNoPartialOutput ==
  /\ pc \in Failed =>
       /\ result.kind = "error"
       /\ result.words = <<>>
       /\ result.line_num = idx
       /\ InstructionLine(lines[idx])
       /\ ~assemble_instruction(SecondPassRest(lines[idx]), labels,
                                4 * Cardinality(InstructionLinesBefore(lines, idx - 1))).ok
       /\ \A i \in InstructionLinesBefore(lines, idx - 1) :
            assemble_instruction(SecondPassRest(lines[i]), labels,
                                 4 * Cardinality(InstructionLinesBefore(lines, i - 1))).ok
       /\ Len(machine_code) = Cardinality(InstructionLinesBefore(lines, idx - 1))
       /\ ~artifact.written
       /\ labels = first_pass(lines, 1, NoLabels, 0)
       /\ \A i \in 1..Len(lines) :
            LET text == Strip(BeforeFirst(lines[i], "#"))
            IN Find(text, ":") # 0 => Strip(BeforeFirst(text, ":")) \in DOMAIN labels
  /\ artifact.written => pc = "exit0" /\ result.kind = "words"

\* C4 witness: the second line fails after one word was encoded; a label is
\* defined after the failing line and is in the table; main has exited.
C4_Witness ==
  /\ pc = "exit1"
  /\ lines = <<"b: NOP # pad", "MV X1", "a:">>
  /\ Len(machine_code) = 1
  /\ result.line_num = 2
  /\ "a" \in DOMAIN labels

\* the operands of a one-line source, and the arity of its mnemonic: the
\* number of operand positions its format reads
LineMnemonic(raw) == Upper(Tokens(SecondPassRest(raw), 1)[1])

LineOperands(raw) == Tail(Tokens(SecondPassRest(raw), 1))

Arity(m) == Len(OperandKinds(m))

ShortOfOperands(raw) ==
  /\ Tokens(SecondPassRest(raw), 1) # <<>>
  /\ LineMnemonic(raw) \in DOMAIN OPCODES
  /\ Len(LineOperands(raw)) < Arity(LineMnemonic(raw))

\* C5: an instruction with fewer operands than its mnemonic's arity fails
\* with an OperandCountMismatch error, not with an indexing fault.
C5_OperandCountMismatch ==
  (pc \in Finished \cup Failed /\ ShortOfOperands(lines[1])) =>
     /\ result.kind = "error"
     /\ result.err.exc = "OperandCountMismatch"

\* n with the bits [lo, lo + width) cleared
ClearBits(n, lo, width) == (n \div 2^(lo + width)) * 2^(lo + width) + (n % (2^lo))

\* the fields of each encoder: the argument that fills it, and its place in
\* the word (limb 1 is bits 16 and up, limb 2 bits 15..0)
ClearField(w, f) ==
  CASE f = "opcode" -> <<ClearBits(w[1], 10, 6), w[2]>>
    [] f = "r25" -> <<ClearBits(w[1], 5, 5), w[2]>>
    [] f = "r20" -> <<ClearBits(w[1], 0, 5), w[2]>>
    [] f = "r15" -> <<w[1], ClearBits(w[2], 11, 5)>>
    [] f = "r10" -> <<w[1], ClearBits(w[2], 6, 5)>>
    [] f = "imm16" -> <<w[1], 0>>
    [] f = "imm21" -> <<ClearBits(w[1], 0, 5), 0>>

\* the call in with the argument that fills field f set to 0; encode_b_type
\* takes rs1 (bits 20..16) before rs2 (bits 25..21), the others fill bits
\* 25..21 from their first register argument
ZeroField(in, f) ==
  CASE f = "opcode" -> [in EXCEPT !.opcode = 0]
    [] f = "r25" -> IF in.fn = "encode_b_type" THEN [in EXCEPT !.b = 0] ELSE [in EXCEPT !.a = 0]
    [] f = "r20" -> IF in.fn = "encode_b_type" THEN [in EXCEPT !.a = 0] ELSE [in EXCEPT !.b = 0]
    [] f = "r15" -> [in EXCEPT !.c = 0]
    [] f = "r10" -> [in EXCEPT !.d = 0]
    [] f = "imm16" -> [in EXCEPT !.c = 0]
    [] f = "imm21" -> [in EXCEPT !.b = 0]

FieldsOf(fn) ==
  CASE fn = "encode_r_type" -> {"opcode", "r25", "r20", "r15"}
    [] fn \in {"encode_i_type", "encode_s_type", "encode_b_type"} ->
         {"opcode", "r25", "r20", "imm16"}
    [] fn = "encode_u_type" -> {"opcode", "r25", "imm21"}
    [] fn = "encode_r3_type" -> {"opcode", "r25", "r20", "r15", "r10"}
    [] OTHER -> {}

\* C6: for each field of the encoder called, the bits of the word outside
\* the field are those the encoder gives when that field's argument is 0.
C6_FieldMasking ==
  pc = "encoded" =>
    \A f \in FieldsOf(encIn.fn) :
      ClearField(encOut, f) = ClearField(ApplyEncoder(ZeroField(encIn, f)), f)

\* C7: every word of a successful assemble is below 2^32 and renders as 8
\* hexadecimal digits.
C7_WordIs32Bit ==
  pc \in Finished =>
    \A k \in 1..Len(result.words) :
      /\ result.words[k][1] < 65536
      /\ Len(to_hex(result.words)[k]) = 8

\* C8 as stated: the source LW X1, 8(X2) gives the one word 0xC0221008.
C8_AsStated ==
  (pc \in Finished /\ lines = <<"LW X1, 8(X2)">>) => result.words = <<<<49186, 4104>>>>

\* C8 amended: a load "Lx rd, off(rs1)" assembles, to the one word
\* opcode[31:26] | rd[25:21] | rs1[20:16] | off16[15:0]; for LW X1, 8(X2)
\* that word is 0xC0220008.
C8_LoadPacking ==
  /\ (pc \in Finished \cup Failed /\ StartsWith(lines[1], "L")) =>
     \A m \in MEM_LOAD, rd \in {1, 31}, rs1 \in LoadRegs, off \in LoadOffsets :
       lines = <<LoadLine(m, rd, rs1, off)>> =>
         /\ pc \notin Failed
         /\ pc \in Finished =>
              result.words = <<<<OPCODES[m] * 1024 + rd * 32 + rs1, off % 65536>>>>
  /\ (pc \in Finished /\ lines = <<"LW X1, 8(X2)">>) => result.words = <<<<49186, 8>>>>

\* C8 witness: LW X1, 8(X2) has been assembled to 0xC0220008.
C8_Witness ==
  /\ pc = "returned"
  /\ lines = <<"LW X1, 8(X2)">>
  /\ result.words = <<<<49186, 8>>>>
  /\ to_hex(result.words) = <<"c0220008">>

\* C9: LI rd, imm gives the add-immediate word with rs1 = 0 and
\* imm16 = imm mod 2^16 exactly when -32768 <= imm <= 32767; otherwise the
\* line fails with the LI range error, no word is emitted and the assembly
\* aborts without output.
C9_LIRange ==
  (pc \in Finished \cup Failed /\ StartsWith(lines[1], "LI X3, ")) =>
  \A v \in LIValues :
    lines = <<"LI X3, " \o Dec(v)>> =>
       IF -32768 <= v /\ v <= 32767
       THEN /\ pc \in Finished
            /\ result.words = <<<<OPCODES["ADDI"] * 1024 + 3 * 32, v % 65536>>>>
       ELSE /\ pc \in Failed
            /\ result.kind = "error"
            /\ result.err = ValueError("LI immediate too large")
            /\ result.words = <<>>
            /\ machine_code = <<>>
            /\ ~artifact.written

\* C9 witness: LI with 40000 has failed with the range error, main exited.
C9_Witness ==
  /\ pc = "exit1"
  /\ lines = <<"LI X3, 40000">>
  /\ result.err = ValueError("LI immediate too large")

\* C9, the other side: LI with -32768 has given its word.
C9_InRangeReached ==
  /\ pc = "returned"
  /\ lines = <<"LI X3, -32768">>
  /\ result.words = <<<<1120, 32768>>>>

\* C10: whatever calls came before on the instance, assemble delivers what
\* it delivers on a new instance and leaves the same label table.
C10_HistoryIndependence ==
  pc \in {"returned", "raised"} =>
    /\ result = assemble(lines)
    /\ labels = first_pass(lines, 1, NoLabels, 0)

====
